---- MODULE Spec2Model ----
(***************************************************************************)
(* pdf2db: the extraction cascade (extractor.py), the header normalizer    *)
(* and the repair-and-coerce stage (transformer.py), the loader            *)
(* (loader.py) and the pipeline entry point (main.py).                     *)
(*                                                                         *)
(* Text is a sequence of one-character strings.  A cell value and a column *)
(* label are records [k, s, n]: k is the Python/pandas kind of the value,  *)
(* s its text (kind "str"), n its number (kinds "int", "float", "date").   *)
(* A DataFrame is [cols |-> labels, rows |-> rows], every row as long as   *)
(* cols.                                                                   *)
(***************************************************************************)
EXTENDS Integers, Sequences, FiniteSets, TLC

VARIABLES
    pc,           \* position in main / in the function under study
    pdf_path,     \* main: args.pdf ("" when argv carries no --pdf)
    unit,         \* resolution pd.to_datetime parses strings to ("ns", "us")
    calls,        \* the stages and strategies invoked so far, in order
    detected,     \* what the backend of the strategy being run reported
    returned,     \* what the adapter of the strategy being run returned
    all_frames,   \* extract_tables: all_frames
    raw_df,       \* main: raw_df (the table a function under study is given)
    clean_df,     \* main: clean_df (the table the function returns)
    again_df,     \* clean_column_headers applied to clean_df
    error,        \* the exception raised, if any
    exit_code,    \* the process exit code, -1 while running
    database_url, \* os.getenv("DATABASE_URL", "")
    written,      \* rows appended to the target table
    value,        \* the cell given to _coerce_date
    coerced       \* the value _coerce_date returns for it

vars == <<pc, pdf_path, unit, calls, detected, returned, all_frames, raw_df, clean_df, again_df,
          error, exit_code, database_url, written, value, coerced>>

-----------------------------------------------------------------------------
(* Bounds *)

\* longest cell text given to _coerce_date
MaxLen == 9
\* most tables one strategy detects in a document
MaxTables == 2
\* most rows one strategy detects in a document, over all its tables
MaxRows == 2

-----------------------------------------------------------------------------
(* Text *)

TXT_Unnamed == <<"U", "n", "n", "a", "m", "e", "d">>
TXT_nan == <<"n", "a", "n">>
TXT_None == <<"N", "o", "n", "e">>
TXT_row_number == <<"r", "o", "w", "_", "n", "u", "m", "b", "e", "r">>
TXT_as_of_date == <<"a", "s", "_", "o", "f", "_", "d", "a", "t", "e">>
TXT_customer_code == <<"c", "u", "s", "t", "o", "m", "e", "r", "_", "c", "o", "d", "e">>
TXT_Unnamed_0 == <<"U", "n", "n", "a", "m", "e", "d", ":", " ", "0">>
TXT_As_Of_Date == <<"A", "s", " ", "O", "f", "-", "D", "a", "t", "e">>
TXT_Customer_Code == <<"C", "u", "s", "t", "o", "m", "e", "r", "/", "C", "o", "d", "e">>
TXT_1_20250630 == <<"1", " ", "2", "0", "2", "5", "0", "6", "3", "0">>
TXT_20250630 == <<"2", "0", "2", "5", "0", "6", "3", "0">>
TXT_7 == <<"7">>
TXT_1p5 == <<"1", ".", "5">>
TXT_12x20250630 == <<"1", "2", "x", "2", "0", "2", "5", "0", "6", "3", "0", " ">>
TXT_3_2025063 == <<"3", " ", "2", "0", "2", "5", "0", "6", "3">>
TXT_x == <<"x">>
TXT_Customer_Code_sp == <<" ", "C", "u", "s", "t", "o", "m", "e", "r", " ", "C", "o", "d", "e", " ">>
TXT_date_of_restructure == <<"d", "a", "t", "e", "_", "o", "f", "_", "r", "e", "s", "t", "r", "u", "c", "t", "u", "r", "e">>

Digits == <<"0", "1", "2", "3", "4", "5", "6", "7", "8", "9">>
UpperCase == <<"A", "B", "C", "D", "E", "F", "G", "H", "I", "J", "K", "L", "M",
               "N", "O", "P", "Q", "R", "S", "T", "U", "V", "W", "X", "Y", "Z">>
LowerCase == <<"a", "b", "c", "d", "e", "f", "g", "h", "i", "j", "k", "l", "m",
               "n", "o", "p", "q", "r", "s", "t", "u", "v", "w", "x", "y", "z">>

\* regex \d
IsDigit(c) == \E i \in 1..10 : Digits[i] = c
\* regex \s, and what str.strip() removes
IsSpace(c) == c \in {" ", "\t", "\n", "\r"}
DigitVal(c) == (CHOOSE i \in 1..10 : Digits[i] = c) - 1

AllDigits(s) == \A i \in 1..Len(s) : IsDigit(s[i])

RECURSIVE StrToNat(_)
\* int("0123") for a text of digits
StrToNat(s) ==
    IF s = <<>> THEN 0
    ELSE 10 * StrToNat(SubSeq(s, 1, Len(s) - 1)) + DigitVal(s[Len(s)])

RECURSIVE NatToStr(_)
\* str(n) for n >= 0
NatToStr(n) ==
    IF n < 10 THEN <<Digits[n + 1]>>
    ELSE NatToStr(n \div 10) \o <<Digits[(n % 10) + 1]>>

\* str.startswith
StartsWith(s, p) == Len(s) >= Len(p) /\ SubSeq(s, 1, Len(p)) = p

\* str.strip()
Strip(s) ==
    LET keep == {i \in 1..Len(s) : ~IsSpace(s[i])}
    IN  IF keep = {} THEN <<>>
        ELSE SubSeq(s, CHOOSE i \in keep : \A j \in keep : i <= j,
                       CHOOSE i \in keep : \A j \in keep : j <= i)

\* str.lower(), one character
LowerChar(c) ==
    IF \E i \in 1..26 : UpperCase[i] = c
    THEN LowerCase[CHOOSE i \in 1..26 : UpperCase[i] = c]
    ELSE c

-----------------------------------------------------------------------------
(* Values *)

Str(s) == [k |-> "str", s |-> s, n |-> 0]
IntV(n) == [k |-> "int", s |-> <<>>, n |-> n]
\* a float that is not a whole number; n is its integer part
FloatV(n) == [k |-> "float", s |-> <<>>, n |-> n]
DateV(n) == [k |-> "date", s |-> <<>>, n |-> n]
None == [k |-> "None", s |-> <<>>, n |-> 0]
NaN == [k |-> "nan", s |-> <<>>, n |-> 0]
NaT == [k |-> "NaT", s |-> <<>>, n |-> 0]
NA == [k |-> "NA", s |-> <<>>, n |-> 0]

\* pd.isna
isna(v) == v.k \in {"None", "nan", "NaT", "NA"}

\* str(v)
py_str(v) ==
    CASE v.k = "str" -> v.s
      [] v.k = "int" -> NatToStr(v.n)
      [] v.k = "None" -> TXT_None
      [] v.k = "nan" -> TXT_nan
      [] OTHER -> v.s

-----------------------------------------------------------------------------
(* transformer.py: date coercion *)

RECURSIVE re_findall_d8(_, _)
\* re.findall(r"(\d{8})", s) from position i on: a left-to-right scan, each
\* match consuming its 8 characters
re_findall_d8(s, i) ==
    IF i + 7 > Len(s) THEN <<>>
    ELSE IF AllDigits(SubSeq(s, i, i + 7))
         THEN <<SubSeq(s, i, i + 7)>> \o re_findall_d8(s, i + 8)
         ELSE re_findall_d8(s, i + 1)

_extract_ymd_digits(v) ==
    LET s == IF isna(v) THEN <<>> ELSE py_str(v)
        matches == re_findall_d8(s, 1)
    IN  IF matches = <<>> THEN None ELSE Str(matches[Len(matches)])

is_leap(y) == (y % 4 = 0 /\ y % 100 # 0) \/ y % 400 = 0

days_in_month(y, m) ==
    CASE m \in {4, 6, 9, 11} -> 30
      [] m = 2 -> IF is_leap(y) THEN 29 ELSE 28
      [] OTHER -> 31

\* first and last day pd.Timestamp holds at nanosecond resolution, as yyyymmdd
TimestampMinYmd == 16770922
TimestampMaxYmd == 22620411

\* the resolutions a pandas build parses strings to
Units == {"ns", "us"}

\* to_datetime_ymd under the format "%Y%d%m"
to_datetime_ymd_dm(v, u) ==
    IF v.k # "str" THEN NaT
    ELSE LET y == StrToNat(SubSeq(v.s, 1, 4))
             d == StrToNat(SubSeq(v.s, 5, 6))
             m == StrToNat(SubSeq(v.s, 7, 8))
             ymd == 10000 * y + 100 * m + d
         IN  IF /\ y >= 1
                /\ m \in 1..12
                /\ d \in 1..days_in_month(y, m)
                /\ (u = "ns" => ymd \in TimestampMinYmd..TimestampMaxYmd)
             THEN DateV(ymd)
             ELSE NaT

\* pd.to_datetime(v, format="%Y%m%d", errors="coerce") followed by .dt.date,
\* for one value: None or a text of 8 digits
to_datetime_ymd(v, u) ==
    IF v.k # "str" THEN NaT
    ELSE LET y == StrToNat(SubSeq(v.s, 1, 4))
             m == StrToNat(SubSeq(v.s, 5, 6))
             d == StrToNat(SubSeq(v.s, 7, 8))
             ymd == 10000 * y + 100 * m + d
         IN  IF /\ y >= 1
                /\ m \in 1..12
                /\ d \in 1..days_in_month(y, m)
                /\ (u = "ns" => ymd \in TimestampMinYmd..TimestampMaxYmd)
             THEN DateV(ymd)
             ELSE NaT

\* _coerce_date on a column, given as the sequence of its cells
_coerce_date(series, u) ==
    [i \in 1..Len(series) |-> to_datetime_ymd(_extract_ymd_digits(series[i]), u)]

-----------------------------------------------------------------------------
(* Values of the variables a specification does not use *)

NoTable == [cols |-> <<>>, rows |-> <<>>]
NoError == [type |-> "none", args |-> <<>>, stage |-> ""]

-----------------------------------------------------------------------------
(* DataFrames *)

Width(df) == Len(df.cols)
NRows(df) == Len(df.rows)

\* DataFrame.empty: an axis of length 0
empty(df) == Width(df) = 0 \/ NRows(df) = 0

\* the cells of column j
Column(df, j) == [i \in 1..NRows(df) |-> df.rows[i][j]]

Returned(df) == [ok |-> TRUE, df |-> df, exc |-> "none"]
Raised(exc) == [ok |-> FALSE, df |-> NoTable, exc |-> exc]

SeqMax(ns) == CHOOSE m \in {ns[i] : i \in 1..Len(ns)} : \A i \in 1..Len(ns) : ns[i] <= m

RECURSIVE SeqSum(_)
SeqSum(ns) == IF ns = <<>> THEN 0 ELSE ns[1] + SeqSum(Tail(ns))

RECURSIVE Flatten(_)
\* the concatenation of a sequence of sequences
Flatten(ss) == IF ss = <<>> THEN <<>> ELSE ss[1] \o Flatten(Tail(ss))

RECURSIVE Distinct(_)
\* the elements of a sequence in order of first appearance
Distinct(s) ==
    IF s = <<>> THEN <<>>
    ELSE LET front == Distinct(SubSeq(s, 1, Len(s) - 1))
             last == s[Len(s)]
         IN  IF \E i \in 1..Len(front) : front[i] = last THEN front
             ELSE Append(front, last)

HasDuplicates(s) == \E i, j \in 1..Len(s) : i < j /\ s[i] = s[j]

-----------------------------------------------------------------------------
(* extractor.py: the detection adapters *)

\* adapter_frames without the filter on .empty
adapter_frames_unfiltered(report) ==
    IF report.status # "ok" THEN <<>> ELSE report.tables

\* _extract_with_camelot, _extract_with_tabula: what the adapter returns for
\* what its backend reported.  A backend that cannot be imported or that
\* raises yields []; otherwise the detected frames that are not .empty.
adapter_frames(report) ==
    IF report.status # "ok" THEN <<>>
    ELSE SelectSeq(report.tables, LAMBDA f : ~empty(f))

-----------------------------------------------------------------------------
(* extractor.py: the merge step of extract_tables *)

\* frame[key] = None: an existing column of that label is overwritten, a new
\* label is appended as a column
set_column_none(df, key) ==
    IF \E j \in 1..Width(df) : df.cols[j] = key
    THEN [df EXCEPT !.rows = [i \in 1..NRows(df) |->
             [j \in 1..Width(df) |-> IF df.cols[j] = key THEN None ELSE df.rows[i][j]]]]
    ELSE [cols |-> Append(df.cols, key),
          rows |-> [i \in 1..NRows(df) |-> Append(df.rows[i], None)]]

RECURSIVE pad_frame(_, _)
\* for _ in range(n): frame[frame.shape[1]] = None
pad_frame(df, n) ==
    IF n = 0 THEN df
    ELSE pad_frame(set_column_none(df, IntV(Width(df))), n - 1)

\* the frame as the loop leaves it in all_frames: padded in place when narrower
padded(df, max_cols) ==
    IF Width(df) < max_cols THEN pad_frame(df, max_cols - Width(df)) ELSE df

RECURSIVE sorted_ints(_)
\* sorted() of a set of integer labels
sorted_ints(labels) ==
    IF labels = {} THEN <<>>
    ELSE LET least == CHOOSE a \in labels : \A b \in labels : a.n <= b.n
         IN  <<least>> \o sorted_ints(labels \ {least})

\* frame.reindex(sorted(frame.columns), axis=1) of a padded frame: sorted()
\* cannot order an int label against a str label, reindex refuses duplicate
\* labels
reindex_sorted(df) ==
    LET labels == {df.cols[j] : j \in 1..Width(df)}
    IN  IF \E a, b \in labels : a.k = "int" /\ b.k = "str" THEN Raised("TypeError")
        ELSE IF HasDuplicates(df.cols) THEN Raised("ValueError")
        ELSE IF \A a \in labels : a.k = "str" THEN Returned(df)
        ELSE LET order == sorted_ints(labels)
                 at(l) == CHOOSE j \in 1..Width(df) : df.cols[j] = l
             IN  Returned([cols |-> order,
                           rows |-> [i \in 1..NRows(df) |->
                                       [j \in 1..Len(order) |-> df.rows[i][at(order[j])]]]])

\* one pass of the normalisation loop
normalized(df, max_cols) ==
    IF Width(df) < max_cols THEN reindex_sorted(padded(df, max_cols))
    ELSE Returned(df)

\* pd.concat(frames, ignore_index=True): the columns are the union of the
\* frames' labels in order of first appearance, a cell of a column its frame
\* lacks is NaN; frames whose labels differ must each have unique labels
concat(frames) ==
    LET same == \A i \in 1..Len(frames) : frames[i].cols = frames[1].cols
        cols == IF same THEN frames[1].cols
                ELSE Distinct(Flatten([i \in 1..Len(frames) |-> frames[i].cols]))
        cell(f, r, l) ==
            IF \E j \in 1..Width(f) : f.cols[j] = l
            THEN r[CHOOSE j \in 1..Width(f) : f.cols[j] = l]
            ELSE NaN
        rows(f) == IF same THEN f.rows
                   ELSE [i \in 1..NRows(f) |->
                           [j \in 1..Len(cols) |-> cell(f, f.rows[i], cols[j])]]
    IN  IF ~same /\ \E i \in 1..Len(frames) : HasDuplicates(frames[i].cols)
        THEN Raised("InvalidIndexError")
        ELSE Returned([cols |-> cols,
                       rows |-> Flatten([i \in 1..Len(frames) |-> rows(frames[i])])])

\* extract_tables from max_cols on, for a non-empty all_frames
merge_frames(frames) ==
    LET max_cols == SeqMax([i \in 1..Len(frames) |-> Width(frames[i])])
        norm == [i \in 1..Len(frames) |-> normalized(frames[i], max_cols)]
        bad == {i \in 1..Len(frames) : ~norm[i].ok}
    IN  IF bad # {} THEN norm[CHOOSE i \in bad : \A j \in bad : i <= j]
        ELSE concat([i \in 1..Len(frames) |-> norm[i].df])

\* all_frames as the normalisation loop leaves it: every frame the loop
\* reached is padded in place
frames_after_merge(frames) ==
    LET max_cols == SeqMax([i \in 1..Len(frames) |-> Width(frames[i])])
        norm == [i \in 1..Len(frames) |-> normalized(frames[i], max_cols)]
        bad == {i \in 1..Len(frames) : ~norm[i].ok}
        reached(i) == \A j \in bad : i <= j
    IN  [i \in 1..Len(frames) |->
            IF reached(i) THEN padded(frames[i], max_cols) ELSE frames[i]]

NoTablesMessage == "No tables could be extracted from the PDF. Ensure the PDF has structured tables and that Camelot/Tabula system dependencies are installed."

-----------------------------------------------------------------------------
(* transformer.py: header normalization *)

\* _standardize_column_name without the .lower()
_standardize_column_name_cased(name) ==
    LET s == Strip(name)
    IN  [i \in 1..Len(s) |-> IF s[i] \in {" ", "-", "/"} THEN "_" ELSE s[i]]

\* name.strip().lower().replace(" ", "_").replace("-", "_").replace("/", "_")
_standardize_column_name(name) ==
    LET s == Strip(name)
    IN  [i \in 1..Len(s) |->
            LET c == LowerChar(s[i])
            IN  IF c \in {" ", "-", "/"} THEN "_" ELSE c]

\* isinstance(col, (int, float)) or str(col).startswith("Unnamed")
is_placeholder(col) ==
    col.k \in {"int", "float"} \/ StartsWith(py_str(col), TXT_Unnamed)

\* clean_column_headers without the test of the candidate tokens: row 0 is
\* promoted whenever every label is a placeholder
clean_column_headers_untested(df) ==
    LET candidates == \A j \in 1..Width(df) : is_placeholder(df.cols[j])
    IN  IF candidates /\ NRows(df) = 0 THEN Raised("IndexError")
        ELSE
        LET rows == IF candidates THEN Tail(df.rows) ELSE df.rows
            cols == IF candidates THEN [j \in 1..Width(df) |-> Str(py_str(df.rows[1][j]))]
                    ELSE df.cols
        IN  Returned([cols |-> [j \in 1..Width(df) |->
                                  Str(_standardize_column_name(py_str(cols[j])))],
                      rows |-> rows])

\* clean_column_headers; df.iloc[0] of a frame without rows raises IndexError
clean_column_headers(df) ==
    LET candidates == \A j \in 1..Width(df) : is_placeholder(df.cols[j])
    IN  IF candidates /\ NRows(df) = 0 THEN Raised("IndexError")
        ELSE
        LET candidate_headers ==
                IF candidates THEN [j \in 1..Width(df) |-> py_str(df.rows[1][j])]
                ELSE <<>>
            promote == \E j \in 1..Len(candidate_headers) :
                candidate_headers[j] # <<>> /\ candidate_headers[j] # TXT_nan
            rows == IF promote THEN Tail(df.rows) ELSE df.rows
            cols == IF promote THEN [j \in 1..Width(df) |-> Str(candidate_headers[j])]
                    ELSE df.cols
        IN  Returned([cols |-> [j \in 1..Width(df) |->
                                  Str(_standardize_column_name(py_str(cols[j])))],
                      rows |-> rows])

-----------------------------------------------------------------------------
(* transformer.py: compound-field repair and type coercion *)

\* "name" in df.columns
has_column(df, name) == \E j \in 1..Width(df) : df.cols[j] = Str(name)

\* the positions of the columns labelled name
columns_named(df, name) == {j \in 1..Width(df) : df.cols[j] = Str(name)}

\* df[name] = series, for a label that names one column
with_column(df, j, series) ==
    [df EXCEPT !.rows = [i \in 1..NRows(df) |-> [@[i] EXCEPT ![j] = series[i]]]]

\* the first position from i on whose character passes Test, Len(s) + 1 when
\* there is none
first_where(s, i, Test(_)) ==
    LET hits == {p \in i..Len(s) : Test(s[p])}
    IN  IF hits = {} THEN Len(s) + 1 ELSE CHOOSE p \in hits : \A q \in hits : p <= q

\* the matches of ^\s*(\d+)\D+(\d{8})\s*$ on s, as <<a, b, c>>: group 1 is
\* s[a..b], group 2 is s[c..c+7].  There is at most one: \s* ends at the first
\* character that is no blank, \d+ at the end of the digits there, \D+ at the
\* next digit, and 8 digits and blanks must end the text.
compound_matches(s) ==
    LET a == first_where(s, 1, LAMBDA ch : ~IsSpace(ch))
        b == first_where(s, a, LAMBDA ch : ~IsDigit(ch)) - 1
        c == first_where(s, b + 1, IsDigit)
        e == first_where(s, c, LAMBDA ch : ~IsDigit(ch))
    IN  IF /\ a <= b
           /\ b + 1 < c
           /\ e = c + 8
           /\ \A i \in e..Len(s) : IsSpace(s[i])
        THEN {<<a, b, c>>}
        ELSE {}

\* repair_compound with the two groups of the pattern taken for each other
repair_compound_swapped(df) ==
    IF has_column(df, TXT_row_number) \/ ~has_column(df, TXT_as_of_date)
    THEN Returned(df)
    ELSE IF Cardinality(columns_named(df, TXT_as_of_date)) > 1
    THEN Raised("AttributeError")
    ELSE
    LET j == CHOOSE c \in columns_named(df, TXT_as_of_date) : TRUE
        series_str == [i \in 1..NRows(df) |-> py_str(df.rows[i][j])]
        mask == [i \in 1..NRows(df) |-> compound_matches(series_str[i]) # {}]
        groups(i) == CHOOSE abc \in compound_matches(series_str[i]) : TRUE
        leading(i) == SubSeq(series_str[i], groups(i)[1], groups(i)[2])
        ymd(i) == SubSeq(series_str[i], groups(i)[3], groups(i)[3] + 7)
    IN  IF \A i \in 1..NRows(df) : ~mask[i] THEN Returned(df)
        ELSE Returned(
            [cols |-> Append(df.cols, Str(TXT_row_number)),
             rows |-> [i \in 1..NRows(df) |->
                Append([df.rows[i] EXCEPT ![j] = IF mask[i] THEN Str(leading(i)) ELSE @],
                       IF mask[i] THEN IntV(StrToNat(ymd(i))) ELSE NaN)]])

\* the repair block of transform_dataframe; df["as_of_date"] of a frame with
\* two such columns is a DataFrame, which has no .str
repair_compound(df) ==
    IF has_column(df, TXT_row_number) \/ ~has_column(df, TXT_as_of_date)
    THEN Returned(df)
    ELSE IF Cardinality(columns_named(df, TXT_as_of_date)) > 1
    THEN Raised("AttributeError")
    ELSE
    LET j == CHOOSE c \in columns_named(df, TXT_as_of_date) : TRUE
        series_str == [i \in 1..NRows(df) |-> py_str(df.rows[i][j])]
        mask == [i \in 1..NRows(df) |-> compound_matches(series_str[i]) # {}]
        groups(i) == CHOOSE abc \in compound_matches(series_str[i]) : TRUE
        leading(i) == SubSeq(series_str[i], groups(i)[1], groups(i)[2])
        ymd(i) == SubSeq(series_str[i], groups(i)[3], groups(i)[3] + 7)
    IN  IF \A i \in 1..NRows(df) : ~mask[i] THEN Returned(df)
        ELSE Returned(
            [cols |-> Append(df.cols, Str(TXT_row_number)),
             rows |-> [i \in 1..NRows(df) |->
                Append([df.rows[i] EXCEPT ![j] = IF mask[i] THEN Str(ymd(i)) ELSE @],
                       IF mask[i] THEN IntV(StrToNat(leading(i))) ELSE NaN)]])

\* pd.to_numeric(v, errors="coerce") for one cell: a text of digits is an int,
\* digits with a decimal point a float, any other text and any null is NaN
to_numeric(v) ==
    IF v.k = "int" THEN v
    ELSE IF v.k # "str" THEN NaN
    ELSE IF v.s # <<>> /\ AllDigits(v.s) THEN IntV(StrToNat(v.s))
    ELSE IF \E p \in 1..Len(v.s) :
               /\ v.s[p] = "." /\ Len(v.s) > 1
               /\ AllDigits(SubSeq(v.s, 1, p - 1))
               /\ AllDigits(SubSeq(v.s, p + 1, Len(v.s)))
    THEN LET p == CHOOSE q \in 1..Len(v.s) : v.s[q] = "."
             whole == StrToNat(SubSeq(v.s, 1, p - 1))
         IN  IF StrToNat(SubSeq(v.s, p + 1, Len(v.s))) = 0 THEN IntV(whole)
             ELSE FloatV(whole)
    ELSE NaN

\* _coerce_int: astype("Int64") refuses a float that is not a whole number
_coerce_int(series) ==
    LET numbers == [i \in 1..Len(series) |-> to_numeric(series[i])]
    IN  IF \E i \in 1..Len(series) : numbers[i].k = "float" THEN Raised("TypeError")
        ELSE Returned([i \in 1..Len(series) |->
                          IF numbers[i].k = "int" THEN numbers[i] ELSE NA])

\* if name in df.columns: df[name] = _coerce_int(df[name]); df[name] of a
\* frame with two such columns is a DataFrame, which pd.to_numeric refuses
coerce_int_column(df, name) ==
    IF ~has_column(df, name) THEN Returned(df)
    ELSE IF Cardinality(columns_named(df, name)) > 1 THEN Raised("TypeError")
    ELSE LET j == CHOOSE c \in columns_named(df, name) : TRUE
             r == _coerce_int(Column(df, j))
         IN  IF r.ok THEN Returned(with_column(df, j, r.df)) ELSE r

\* if name in df.columns: df[name] = _coerce_date(df[name]); on a DataFrame
\* .apply hands _extract_ymd_digits a whole column, whose truth value is
\* ambiguous
coerce_date_column(df, name, u) ==
    IF ~has_column(df, name) THEN Returned(df)
    ELSE IF Cardinality(columns_named(df, name)) > 1 THEN Raised("ValueError")
    ELSE LET j == CHOOSE c \in columns_named(df, name) : TRUE
         IN  Returned(with_column(df, j, _coerce_date(Column(df, j), u)))

\* r, or F of its frame when r returned one
and_then(r, F(_)) == IF r.ok THEN F(r.df) ELSE r

\* transform_dataframe from the repair block on
repair_and_coerce(df, u) ==
    LET ints(d) == and_then(coerce_int_column(d, TXT_row_number),
                            LAMBDA e : coerce_int_column(e, TXT_customer_code))
        dates(d) == and_then(coerce_date_column(d, TXT_as_of_date, u),
                             LAMBDA e : coerce_date_column(e, TXT_date_of_restructure, u))
    IN  and_then(and_then(repair_compound(df), ints), dates)

transform_dataframe(df, u) ==
    and_then(clean_column_headers(df), LAMBDA d : repair_and_coerce(d, u))

-----------------------------------------------------------------------------
(* loader.py *)

\* get_database_url without the .strip()
get_database_url_unstripped(env) ==
    IF env = <<>> THEN Raised("RuntimeError") ELSE Returned(env)

\* get_database_url: os.getenv("DATABASE_URL", "").strip(), refused when empty
get_database_url(env) ==
    IF Strip(env) = <<>> THEN Raised("RuntimeError") ELSE Returned(Strip(env))

-----------------------------------------------------------------------------
(* The documents: what a detection backend may report *)

\* Camelot labels the columns of a table by position and its cells are texts
CamelotShapes == {<<IntV(0)>>, <<IntV(0), IntV(1)>>}

CamelotRows(w) ==
    IF w = 1 THEN {<<Str(TXT_as_of_date)>>, <<Str(<<>>)>>}
    ELSE {<<Str(TXT_as_of_date), Str(TXT_customer_code)>>,
          <<Str(TXT_1_20250630), Str(TXT_7)>>,
          <<Str(TXT_20250630), Str(TXT_1p5)>>,
          <<Str(<<>>), Str(<<>>)>>}

\* Tabula labels the columns by the header row it reads, "Unnamed: N" where
\* the header cell is blank; a blank cell is NaN
TabulaShapes ==
    {<<Str(TXT_Unnamed_0)>>, <<Str(TXT_As_Of_Date)>>,
     <<Str(TXT_As_Of_Date), Str(TXT_Customer_Code)>>}

TabulaRows(w) ==
    IF w = 1 THEN {<<Str(TXT_as_of_date)>>, <<NaN>>}
    ELSE {<<Str(TXT_1_20250630), Str(TXT_7)>>,
          <<Str(TXT_20250630), Str(TXT_1p5)>>,
          <<NaN, NaN>>}

\* the tables of k rows
TablesWith(shapes, Rows(_), k) ==
    UNION {{[cols |-> sh, rows |-> rs] : rs \in [1..k -> Rows(Len(sh))]} : sh \in shapes}

RECURSIVE TableLists(_, _, _, _)
\* the lists of at most n tables with at most r rows in all
TableLists(shapes, Rows(_), n, r) ==
    IF n = 0 THEN {<<>>}
    ELSE {<<>>} \cup
         UNION {{<<t>> \o rest : t \in TablesWith(shapes, Rows, k),
                                 rest \in TableLists(shapes, Rows, n - 1, r - k)} :
                k \in 0..r}

\* a backend is not installed, raises while parsing, or reports tables
Outcomes(lists) ==
    {[status |-> "unavailable", tables |-> <<>>], [status |-> "failed", tables |-> <<>>]}
    \cup {[status |-> "ok", tables |-> ts] : ts \in lists}

CamelotReports == Outcomes(TableLists(CamelotShapes, CamelotRows, MaxTables, MaxRows))
TabulaReports == Outcomes(TableLists(TabulaShapes, TabulaRows, MaxTables, MaxRows))

NoReport == [status |-> "none", tables |-> <<>>]

\* argv: no --pdf, a path that is no file, a path that is a file
ArgvPaths == {"", "missing.pdf", "input.pdf"}
ExistingFiles == {"input.pdf"}

\* DATABASE_URL: unset or empty, blank, set
EnvUrls == {<<>>, <<" ">>, <<"d", "b">>}

-----------------------------------------------------------------------------
(* main.py: the pipeline *)

Call(op, n) == [op |-> op, n |-> n]
Exception(type, args, stage) == [type |-> type, args |-> args, stage |-> stage]

Init ==
    /\ pc = "start"
    /\ pdf_path = ""
    /\ unit = "ns"
    /\ calls = <<>>
    /\ detected = NoReport
    /\ returned = <<>>
    /\ all_frames = <<>>
    /\ raw_df = NoTable
    /\ clean_df = NoTable
    /\ again_df = NoTable
    /\ error = NoError
    /\ exit_code = -1
    /\ database_url = <<>>
    /\ written = 0
    /\ value = None
    /\ coerced = None

\* main up to the call of extract_tables: parse_args exits with 2 on a
\* missing --pdf, main returns 2 when the path is no file
ParseArgs ==
    /\ pc = "start"
    /\ \E p \in ArgvPaths :
        /\ pdf_path' = p
        /\ IF p \notin ExistingFiles
           THEN /\ exit_code' = 2
                /\ pc' = "exit"
                /\ calls' = calls
           ELSE /\ exit_code' = exit_code
                /\ pc' = "lattice"
                /\ calls' = Append(calls, Call("extract_tables", 0))
    /\ UNCHANGED <<unit, detected, returned, all_frames, raw_df, clean_df, again_df, error,
                   database_url, written, value, coerced>>

\* _extract_with_camelot / _extract_with_tabula runs: the backend reports
\* and the adapter returns its frames
Invoke(strategy, report) ==
    /\ detected' = report
    /\ returned' = adapter_frames(report)
    /\ calls' = Append(calls, Call(strategy, Len(adapter_frames(report))))
    /\ pc' = "extend"

\* extract_tables: the lattice strategy is always tried
ExtractLattice ==
    /\ pc = "lattice"
    /\ \E report \in CamelotReports : Invoke("lattice", report)
    /\ UNCHANGED <<pdf_path, unit, all_frames, raw_df, clean_df, again_df, error,
                   exit_code, database_url, written, value, coerced>>

\* ExtractStream without the test of all_frames
ExtractStream_untested ==
    /\ pc = "stream"
    /\ \E report \in CamelotReports : Invoke("stream", report)
    /\ UNCHANGED <<pdf_path, unit, all_frames, raw_df, clean_df, again_df, error,
                   exit_code, database_url, written, value, coerced>>

\* extract_tables: if not all_frames, the stream strategy is tried
ExtractStream ==
    /\ pc = "stream"
    /\ IF all_frames = <<>>
       THEN \E report \in CamelotReports : Invoke("stream", report)
       ELSE /\ pc' = "tabula"
            /\ UNCHANGED <<detected, returned, calls>>
    /\ UNCHANGED <<pdf_path, unit, all_frames, raw_df, clean_df, again_df, error,
                   exit_code, database_url, written, value, coerced>>

\* extract_tables: if not all_frames, Tabula is tried
ExtractTabula ==
    /\ pc = "tabula"
    /\ IF all_frames = <<>>
       THEN \E report \in TabulaReports : Invoke("tabula", report)
       ELSE /\ pc' = "merge"
            /\ UNCHANGED <<detected, returned, calls>>
    /\ UNCHANGED <<pdf_path, unit, all_frames, raw_df, clean_df, again_df, error,
                   exit_code, database_url, written, value, coerced>>

\* extract_tables: all_frames.extend(...) with what the strategy returned
Extend ==
    /\ pc = "extend"
    /\ all_frames' = all_frames \o returned
    /\ returned' = <<>>
    /\ detected' = NoReport
    /\ pc' = CASE calls[Len(calls)].op = "lattice" -> "stream"
               [] calls[Len(calls)].op = "stream" -> "tabula"
               [] OTHER -> "merge"
    /\ UNCHANGED <<pdf_path, unit, calls, raw_df, clean_df, again_df, error,
                   exit_code, database_url, written, value, coerced>>

\* main's except clause: the exception is logged and main returns 1
Fails(exc) ==
    /\ error' = exc
    /\ exit_code' = 1
    /\ pc' = "exit"

\* extract_tables from "if not all_frames: raise" to its return
ExtractMerge ==
    /\ pc = "merge"
    /\ IF all_frames = <<>>
       THEN /\ Fails(Exception("RuntimeError", <<NoTablesMessage>>, "extract_tables"))
            /\ UNCHANGED <<all_frames, raw_df>>
       ELSE LET r == merge_frames(all_frames)
            IN  /\ all_frames' = frames_after_merge(all_frames)
                /\ IF r.ok
                   THEN /\ raw_df' = r.df
                        /\ pc' = "transform"
                        /\ UNCHANGED <<error, exit_code>>
                   ELSE /\ Fails(Exception(r.exc, <<>>, "extract_tables"))
                        /\ UNCHANGED raw_df
    /\ UNCHANGED <<pdf_path, unit, calls, detected, returned, clean_df, again_df,
                   database_url, written, value, coerced>>

\* main: clean_df = transform_dataframe(raw_df)
Transform ==
    /\ pc = "transform"
    /\ calls' = Append(calls, Call("transform_dataframe", 0))
    /\ LET r == transform_dataframe(raw_df, unit)
       IN  IF r.ok
           THEN /\ clean_df' = r.df
                /\ pc' = "config"
                /\ UNCHANGED <<error, exit_code>>
           ELSE /\ Fails(Exception(r.exc, <<>>, "transform_dataframe"))
                /\ UNCHANGED clean_df
    /\ UNCHANGED <<pdf_path, unit, detected, returned, all_frames, raw_df, again_df,
                   database_url, written, value, coerced>>

\* main: database_url = get_database_url(); table_name = get_target_table_name()
GetDatabaseUrl ==
    /\ pc = "config"
    /\ calls' = Append(calls, Call("get_database_url", 0))
    /\ \E env \in EnvUrls :
        /\ database_url' = env
        /\ IF get_database_url(env).ok
           THEN /\ pc' = "load"
                /\ UNCHANGED <<error, exit_code>>
           ELSE Fails(Exception("RuntimeError", <<>>, "get_database_url"))
    /\ UNCHANGED <<pdf_path, unit, detected, returned, all_frames, raw_df, clean_df, again_df,
                   written, value, coerced>>

\* main: load_dataframe_to_db(clean_df, database_url, table_name); return 0.
\* An empty frame is not written; the write appends every row or raises.
Load ==
    /\ pc = "load"
    /\ calls' = Append(calls, Call("load_dataframe_to_db", 0))
    /\ IF empty(clean_df)
       THEN /\ exit_code' = 0
            /\ pc' = "exit"
            /\ UNCHANGED <<error, written>>
       ELSE \E stored \in BOOLEAN :
            IF stored
            THEN /\ written' = written + NRows(clean_df)
                 /\ exit_code' = 0
                 /\ pc' = "exit"
                 /\ UNCHANGED error
            ELSE /\ Fails(Exception("Exception", <<>>, "load_dataframe_to_db"))
                 /\ UNCHANGED written
    /\ UNCHANGED <<pdf_path, unit, detected, returned, all_frames, raw_df, clean_df, again_df,
                   database_url, value, coerced>>

Next ==
    \/ ParseArgs
    \/ ExtractLattice
    \/ ExtractStream
    \/ ExtractTabula
    \/ Extend
    \/ ExtractMerge
    \/ Transform
    \/ GetDatabaseUrl
    \/ Load

Spec == Init /\ [][Next]_vars

-----------------------------------------------------------------------------
(* Claims about the pipeline, checked under Spec *)

Strategies == <<"lattice", "stream", "tabula">>
Stages == <<"extract_tables", "transform_dataframe", "get_database_url",
            "load_dataframe_to_db">>

\* the strategies invoked so far, with the number of tables each returned
StrategyCalls == SelectSeq(calls, LAMBDA c : c.op \in {"lattice", "stream", "tabula"})
\* the pipeline stages invoked so far
StageCalls == SelectSeq(calls, LAMBDA c : c.op \notin {"lattice", "stream", "tabula"})

\* C1: the strategies are invoked in the order lattice, stream, tabula, and a
\* strategy is invoked only if every earlier one returned zero tables; so once
\* lattice returns a table neither stream nor tabula is invoked, and once
\* stream is the first to return one tabula is not invoked.
C1_CascadeShortCircuits ==
    /\ Len(StrategyCalls) <= 3
    /\ \A i \in 1..Len(StrategyCalls) :
        /\ StrategyCalls[i].op = Strategies[i]
        /\ \A j \in 1..(i - 1) : StrategyCalls[j].n = 0

\* extraction is over, lattice returned a table and was the only strategy run
C1_LatticeAlone ==
    /\ pc = "transform"
    /\ Len(StrategyCalls) = 1
    /\ StrategyCalls[1].op = "lattice"
    /\ StrategyCalls[1].n >= 1

\* extract_tables has returned or raised
ExtractionOver == pc = "transform" \/ error.stage = "extract_tables"

\* C2: extract_tables fails with the no-tables-found error, carrying the input
\* path, exactly when all three strategies yielded zero tables; in every other
\* case it returns a merged table and raises nothing.
C2_NoTablesErrorIffAllEmpty ==
    ExtractionOver =>
        IF Len(StrategyCalls) = 3 /\ \A i \in 1..3 : StrategyCalls[i].n = 0
        THEN /\ error.type = "RuntimeError"
             /\ \E i \in 1..Len(error.args) : error.args[i] = pdf_path
        ELSE /\ error = NoError
             /\ pc = "transform"

\* C3: for every non-empty list of tables of the winning strategy the merge
\* returns a table with exactly maxCols = max(width) columns and exactly the
\* sum of the tables' row counts as rows, every table having been padded to
\* maxCols.
C3_MergedShape ==
    (ExtractionOver /\ all_frames # <<>>) =>
        LET widths == [i \in 1..Len(all_frames) |-> Width(all_frames[i])]
            counts == [i \in 1..Len(all_frames) |-> NRows(all_frames[i])]
        IN  /\ error = NoError
            /\ \A i \in 1..Len(all_frames) : widths[i] = SeqMax(widths)
            /\ Width(raw_df) = SeqMax(widths)
            /\ NRows(raw_df) = SeqSum(counts)

\* transform_dataframe has returned a table
TransformReturned ==
    \E i \in 1..Len(calls) : calls[i].op = "transform_dataframe" /\ error.stage # "transform_dataframe"

\* every label is numeric or starts with "Unnamed", and some token of row 0
\* is neither empty nor the text "nan"
PromotionFires(df) ==
    /\ \A j \in 1..Width(df) :
        df.cols[j].k = "int" \/ StartsWith(py_str(df.cols[j]), TXT_Unnamed)
    /\ NRows(df) >= 1
    /\ \E j \in 1..Width(df) : py_str(df.rows[1][j]) \notin {<<>>, TXT_nan}

\* C6: whenever extraction succeeds and transform_dataframe returns, the clean
\* table has as many rows as the winning strategy's tables have in all, minus
\* one if and only if header promotion fired on the merged table.
C6_RowCountPreserved ==
    TransformReturned =>
        NRows(clean_df) =
            SeqSum([i \in 1..Len(all_frames) |-> NRows(all_frames[i])])
            - (IF PromotionFires(raw_df) THEN 1 ELSE 0)

\* two tables were merged, row 0 was promoted and one data row is left
C6_PromotedAcrossTables ==
    /\ TransformReturned
    /\ Len(all_frames) = 2
    /\ PromotionFires(raw_df)
    /\ NRows(clean_df) = 1

\* C8: main exits with 2 iff the input path is no existing file, and then no
\* stage was invoked; with 1 iff the file exists and a stage raised, the
\* raising stage being the last one invoked; with 0 iff extraction,
\* transformation, configuration lookup and load ran in that order and none
\* raised, the store URL being non-blank.
C8_ExitCodes ==
    IF pc # "exit" THEN exit_code = -1
    ELSE /\ exit_code \in {0, 1, 2}
         /\ exit_code = 2 <=> pdf_path \notin ExistingFiles
         /\ exit_code = 2 => calls = <<>>
         /\ exit_code = 1 <=> (pdf_path \in ExistingFiles /\ error # NoError)
         /\ exit_code = 1 =>
                /\ error.stage = StageCalls[Len(StageCalls)].op
                /\ \A i \in 1..Len(StageCalls) : StageCalls[i].op = Stages[i]
         /\ exit_code = 0 <=>
                (/\ [i \in 1..Len(StageCalls) |-> StageCalls[i].op] = Stages
                 /\ error = NoError)
         /\ exit_code = 0 => Strip(database_url) # <<>>
         /\ (error.stage = "get_database_url") <=>
                (Len(StageCalls) = 3 /\ Strip(database_url) = <<>>)

\* the run failed at the configuration lookup: extraction and transformation
\* completed, the load was not invoked
C8_FailedAtConfig ==
    /\ pc = "exit"
    /\ exit_code = 1
    /\ error.stage = "get_database_url"
    /\ database_url = <<" ">>

\* every cell of the table is null
AllNull(df) == \A i \in 1..NRows(df) : \A j \in 1..Width(df) : isna(df.rows[i][j])

\* C10 as stated: no table an adapter returns has zero rows and none consists
\* only of null cells; a strategy all of whose detected tables are empty in
\* that sense returns zero tables.
C10_NoEmptyNoAllNull ==
    pc = "extend" =>
        /\ \A i \in 1..Len(returned) : NRows(returned[i]) > 0 /\ ~AllNull(returned[i])
        /\ (\A i \in 1..Len(detected.tables) :
                NRows(detected.tables[i]) = 0 \/ AllNull(detected.tables[i]))
            => returned = <<>>

\* C10 amended: no table an adapter returns has zero rows or zero columns (a
\* table with rows whose cells are all null is kept); a strategy all of whose
\* detected tables have zero rows or zero columns returns zero tables, and
\* when extraction reaches the merge with no table, all three strategies
\* have been invoked.
C10_NoZeroAxis ==
    /\ pc = "extend" =>
        /\ \A i \in 1..Len(returned) : NRows(returned[i]) > 0 /\ Width(returned[i]) > 0
        /\ (\A i \in 1..Len(detected.tables) :
                NRows(detected.tables[i]) = 0 \/ Width(detected.tables[i]) = 0)
            => returned = <<>>
    /\ (pc = "merge" /\ all_frames = <<>>) => Len(StrategyCalls) = 3

\* an adapter returned a table whose cells are all null beside one it dropped
C10_AllNullKept ==
    /\ pc = "extend"
    /\ Len(detected.tables) = 2
    /\ Len(returned) = 1
    /\ AllNull(returned[1])

-----------------------------------------------------------------------------
(* transform_dataframe on one merged table *)

\* the labels of the merged table
TransformLabels ==
    {<<Str(TXT_as_of_date)>>,
     <<Str(TXT_as_of_date), Str(TXT_customer_code)>>,
     <<Str(TXT_row_number), Str(TXT_as_of_date)>>,
     <<Str(TXT_As_Of_Date), Str(TXT_date_of_restructure)>>,
     <<Str(TXT_As_Of_Date), Str(TXT_as_of_date)>>}

DateCells ==
    {Str(TXT_1_20250630), Str(TXT_12x20250630), Str(TXT_20250630), Str(TXT_3_2025063), NaN}
IntCells == {Str(TXT_7), Str(TXT_1p5), Str(TXT_x), Str(<<>>), NaN}

\* the cells a column of that label may hold
CellsFor(label) ==
    IF _standardize_column_name(label.s) \in {TXT_as_of_date, TXT_date_of_restructure}
    THEN DateCells ELSE IntCells

RowsFor(labels) ==
    {r \in [1..Len(labels) -> DateCells \cup IntCells] :
        \A j \in 1..Len(labels) : r[j] \in CellsFor(labels[j])}

Idle ==
    /\ pdf_path = ""
    /\ calls = <<>>
    /\ detected = NoReport
    /\ returned = <<>>
    /\ all_frames = <<>>
    /\ error = NoError
    /\ exit_code = -1
    /\ database_url = <<>>
    /\ written = 0

TransformInit ==
    /\ pc = "call"
    /\ unit = "ns"
    \* a merged table has a row at least
    /\ \E ls \in TransformLabels, k \in 1..MaxRows :
          \E rs \in [1..k -> RowsFor(ls)] : raw_df = [cols |-> ls, rows |-> rs]
    /\ clean_df = NoTable
    /\ again_df = NoTable
    /\ value = None
    /\ coerced = None
    /\ Idle

TransformCall ==
    /\ pc = "call"
    /\ LET r == transform_dataframe(raw_df, unit)
       IN  IF r.ok
           THEN /\ clean_df' = r.df
                /\ UNCHANGED error
           ELSE /\ error' = Exception(r.exc, <<>>, "transform_dataframe")
                /\ UNCHANGED clean_df
    /\ pc' = "done"
    /\ UNCHANGED <<pdf_path, unit, calls, detected, returned, all_frames, raw_df,
                   again_df, exit_code, database_url, written, value, coerced>>

TransformNext == TransformCall

SpecTransform == TransformInit /\ [][TransformNext]_vars

-----------------------------------------------------------------------------
(* clean_column_headers applied twice *)

HeaderLabels == {IntV(0), IntV(1), Str(TXT_Unnamed_0), Str(TXT_Customer_Code_sp)}
HeaderCells == {Str(TXT_Unnamed_0), Str(TXT_As_Of_Date), Str(<<>>), NaN}

HeaderInit ==
    /\ pc = "first"
    /\ unit = "ns"
    /\ \E w \in 1..2, k \in 0..MaxRows :
          \E ls \in [1..w -> HeaderLabels], rs \in [1..k -> [1..w -> HeaderCells]] :
              raw_df = [cols |-> ls, rows |-> rs]
    /\ clean_df = NoTable
    /\ again_df = NoTable
    /\ value = None
    /\ coerced = None
    /\ Idle

\* clean_df = clean_column_headers(raw_df)
FirstPass ==
    /\ pc = "first"
    /\ LET r == clean_column_headers(raw_df)
       IN  IF r.ok
           THEN /\ clean_df' = r.df
                /\ pc' = "second"
                /\ UNCHANGED error
           ELSE /\ error' = Exception(r.exc, <<>>, "first")
                /\ pc' = "done"
                /\ UNCHANGED clean_df
    /\ UNCHANGED <<pdf_path, unit, calls, detected, returned, all_frames, raw_df,
                   again_df, exit_code, database_url, written, value, coerced>>

\* again_df = clean_column_headers(clean_df)
SecondPass ==
    /\ pc = "second"
    /\ LET r == clean_column_headers(clean_df)
       IN  IF r.ok
           THEN /\ again_df' = r.df
                /\ UNCHANGED error
           ELSE /\ error' = Exception(r.exc, <<>>, "second")
                /\ UNCHANGED again_df
    /\ pc' = "done"
    /\ UNCHANGED <<pdf_path, unit, calls, detected, returned, all_frames, raw_df,
                   clean_df, exit_code, database_url, written, value, coerced>>

HeaderNext == FirstPass \/ SecondPass

SpecHeaders == HeaderInit /\ [][HeaderNext]_vars

-----------------------------------------------------------------------------
(* _coerce_date on one cell *)

DateChars == {"0", "2", " "}

Texts(chars, n) == UNION {[1..l -> chars] : l \in 0..n}

DateInit ==
    /\ pc = "call"
    /\ unit \in Units
    /\ value \in {Str(s) : s \in Texts(DateChars, MaxLen)} \cup {None, NaN}
    /\ coerced = None
    /\ raw_df = NoTable
    /\ clean_df = NoTable
    /\ again_df = NoTable
    /\ Idle

CoerceDateCall ==
    /\ pc = "call"
    /\ coerced' = _coerce_date(<<value>>, unit)[1]
    /\ pc' = "done"
    /\ UNCHANGED <<pdf_path, unit, calls, detected, returned, all_frames, raw_df, clean_df, again_df,
                   error, exit_code, database_url, written, value>>

DateNext == CoerceDateCall

SpecDate == DateInit /\ [][DateNext]_vars

-----------------------------------------------------------------------------
(* C5: which digits of a date cell become its date *)

\* the text _extract_ymd_digits scans
CellText(v) == IF isna(v) THEN <<>> ELSE v.s

\* first position of the run of digits that position p lies in
RunStart(s, p) == CHOOSE a \in 1..p :
    /\ AllDigits(SubSeq(s, a, p))
    /\ (a = 1 \/ ~IsDigit(s[a - 1]))

\* last position of the run of digits that position p lies in
RunEnd(s, p) == CHOOSE b \in p..Len(s) :
    /\ AllDigits(SubSeq(s, p, b))
    /\ (b = Len(s) \/ ~IsDigit(s[b + 1]))

\* starts of the runs of exactly 8 digits
ExactRunStarts(s) ==
    {p \in 1..Len(s) : IsDigit(s[p]) /\ RunStart(s, p) = p /\ RunEnd(s, p) = p + 7}

\* starts of the 8-digit chunks a run of digits is cut into from its left end
ChunkStarts(s) ==
    {p \in 1..Len(s) : /\ IsDigit(s[p])
                       /\ (p - RunStart(s, p)) % 8 = 0
                       /\ RunEnd(s, p) >= p + 7}

MonthLengths == <<31, 28, 31, 30, 31, 30, 31, 31, 30, 31, 30, 31>>

\* the 8 digits at p read as year(4) month(2) day(2) name a day of the
\* calendar that the build's resolution holds
NamesADay(s, p, u) ==
    LET ymd == StrToNat(SubSeq(s, p, p + 7))
        y == ymd \div 10000
        m == (ymd \div 100) % 100
        d == ymd % 100
        leap == y % 4 = 0 /\ (y % 100 # 0 \/ y % 400 = 0)
    IN  /\ y >= 1 /\ m >= 1 /\ m <= 12 /\ d >= 1
        /\ d <= (IF m = 2 /\ leap THEN 29 ELSE MonthLengths[m])
        /\ (u = "ns" => ymd >= TimestampMinYmd /\ ymd <= TimestampMaxYmd)

\* the date of the last of the given starts, NaT when there is none or the
\* digits there name no day
DateOfLast(s, starts, u) ==
    IF starts = {} THEN NaT
    ELSE LET p == CHOOSE q \in starts : \A r \in starts : r <= q
         IN  IF NamesADay(s, p, u) THEN DateV(StrToNat(SubSeq(s, p, p + 7)))
             ELSE NaT

-----------------------------------------------------------------------------
(* Claims about transform_dataframe, checked under SpecTransform *)

\* the table after header normalization
Normalized == clean_column_headers(raw_df).df

\* the column of that name in df, 0 when there is none
ColumnOf(df, name) ==
    IF \E j \in 1..Width(df) : df.cols[j] = Str(name)
    THEN CHOOSE j \in 1..Width(df) : df.cols[j] = Str(name)
    ELSE 0

\* the text is digits only, and at least one
IsIntegerText(s) == s # <<>> /\ \A i \in 1..Len(s) : IsDigit(s[i])

\* C4: the repair-and-coerce stage never fails: for every table and every
\* content of the cells of row_number, customer_code, as_of_date and
\* date_of_restructure it returns a table, in which a cell of an integer
\* column is an integer or null and a cell of a date column a date or null,
\* a cell that is no integer text being null.
C4_NeverFails ==
    pc = "done" =>
        /\ error = NoError
        /\ \A i \in 1..NRows(clean_df) : \A j \in 1..Width(Normalized) :
            /\ Normalized.cols[j].s \in {TXT_row_number, TXT_customer_code} =>
                /\ clean_df.rows[i][j].k \in {"int", "NA"}
                /\ (Normalized.rows[i][j].k # "str"
                    \/ ~IsIntegerText(Normalized.rows[i][j].s))
                   => clean_df.rows[i][j] = NA
            /\ Normalized.cols[j].s \in {TXT_as_of_date, TXT_date_of_restructure} =>
                clean_df.rows[i][j].k \in {"date", "NaT"}

\* core is a leading integer of lead digits, a separator of sep characters
\* without digits and 8 digits
SplitsAt(core, lead, sep) ==
    /\ lead >= 1 /\ sep >= 1
    /\ Len(core) = lead + sep + 8
    /\ \A i \in 1..lead : IsDigit(core[i])
    /\ \A i \in (lead + 1)..(lead + sep) : ~IsDigit(core[i])
    /\ \A i \in (lead + sep + 1)..Len(core) : IsDigit(core[i])

\* the text is a leading integer, a separator without digits and 8 digits,
\* blanks around them aside
IsCompound(s) ==
    LET core == Strip(s)
    IN  \E lead \in 1..(Len(core) - 9) : SplitsAt(core, lead, Len(core) - 8 - lead)
LeadingInteger(s) ==
    LET core == Strip(s)
        lead == CHOOSE l \in 1..(Len(core) - 9) : SplitsAt(core, l, Len(core) - 8 - l)
    IN  StrToNat(SubSeq(core, 1, lead))
EightDigits(s) == SubSeq(Strip(s), Len(Strip(s)) - 7, Len(Strip(s)))

\* C9: after header normalization the repair runs only when there is no
\* row_number column and there is an as_of_date column.  Then a row whose
\* as_of_date text is "leading integer, separator without digits, 8 digits"
\* ends with that integer as row_number and the date of the 8 digits as
\* as_of_date; any other row ends with the as_of_date its own cell coerces to
\* and with no row_number (null, the column being absent when no row
\* matched).  When a row_number column exists no cell is split: no column is
\* added, row_number is coerced from its own cells and as_of_date from its own.
C9_CompoundRepair ==
    (pc = "done" /\ error = NoError) =>
        LET h == Normalized
            d == ColumnOf(h, TXT_as_of_date)
            n == ColumnOf(clean_df, TXT_row_number)
            text(i) == py_str(h.rows[i][d])
            own(i, j) == _coerce_date(<<h.rows[i][j]>>, unit)[1]
        IN  IF ColumnOf(h, TXT_row_number) = 0 /\ d # 0
            THEN /\ NRows(clean_df) = NRows(h)
                 /\ n # 0 <=> \E i \in 1..NRows(h) : IsCompound(text(i))
                 /\ \A i \in 1..NRows(h) :
                     IF IsCompound(text(i))
                     THEN /\ clean_df.rows[i][n] = IntV(LeadingInteger(text(i)))
                          /\ clean_df.rows[i][d] =
                                DateOfLast(EightDigits(text(i)), {1}, unit)
                     ELSE /\ clean_df.rows[i][d] = own(i, d)
                          /\ n # 0 => clean_df.rows[i][n] = NA
            ELSE /\ clean_df.cols = h.cols
                 /\ d # 0 => \A i \in 1..NRows(h) : clean_df.rows[i][d] = own(i, d)
                 /\ \A i \in 1..NRows(h) : \A j \in 1..Width(h) :
                        h.cols[j] = Str(TXT_row_number) =>
                            clean_df.rows[i][j].k \in {"int", "NA"}
                            /\ (clean_df.rows[i][j].k = "int" =>
                                    clean_df.rows[i][j].n = StrToNat(h.rows[i][j].s))

\* "1 20250630" was split into row_number 1 and as_of_date 2025-06-30, beside
\* a row that was not split
C9_SplitBesideUnsplit ==
    /\ pc = "done"
    /\ error = NoError
    /\ NRows(raw_df) = 2
    /\ raw_df.cols[1] = Str(TXT_as_of_date)
    /\ raw_df.rows[1][1] = Str(TXT_1_20250630)
    /\ raw_df.rows[2][1] = Str(TXT_20250630)
    /\ ColumnOf(clean_df, TXT_row_number) # 0
    /\ clean_df.rows[1][ColumnOf(clean_df, TXT_row_number)] = IntV(1)
    /\ clean_df.rows[1][1] = DateV(20250630)
    /\ clean_df.rows[2][ColumnOf(clean_df, TXT_row_number)] = NA
    /\ clean_df.rows[2][1] = DateV(20250630)

-----------------------------------------------------------------------------
(* Claims about clean_column_headers, checked under SpecHeaders *)

\* C7: clean_column_headers applied to its own result returns a table with
\* the same rows and the same labels, whether or not the first pass promoted
\* row 0; the second pass promotes nothing and does not fail.
C7_HeadersIdempotent ==
    pc = "done" =>
        /\ error.stage # "second"
        /\ error = NoError =>
            /\ again_df.cols = clean_df.cols
            /\ again_df.rows = clean_df.rows

\* the first pass promoted a row of "Unnamed: 0" tokens and left a row that
\* the second pass kept
C7_PromotedOnce ==
    /\ pc = "done"
    /\ error = NoError
    /\ PromotionFires(raw_df)
    /\ \A j \in 1..Width(raw_df) : raw_df.rows[1][j] = Str(TXT_Unnamed_0)
    /\ NRows(raw_df) = 2
    /\ raw_df.rows[2][1] = Str(TXT_As_Of_Date)
    /\ NRows(again_df) = 1

====
